---------------------------- MODULE Spec2Model ----------------------------
(***************************************************************************)
(* A model of the DiskBench shell extension (guypritchard/ben-che):        *)
(* the ExplorerCommand COM object of                                        *)
(* src/DiskBench.ShellExtension.Cpp/ExplorerCommand.cpp and its class      *)
(* factory in dllmain.cpp.                                                  *)
(*                                                                         *)
(* Strings are sequences of UTF-16 code units (integers).  HRESULTs are    *)
(* named by their Windows SDK names.  The specifications of the module:    *)
(*   SpecRef        the reference count under several threads              *)
(*   SpecValidator  the pure function GetSelectedDrivePath                 *)
(*   Spec           the host calls GetState and Invoke against a           *)
(*                  selection and the registry                             *)
(*   SpecConfig     GetState, GetIcon and Invoke while the registry is     *)
(*                  rewritten between the calls                            *)
(*   SpecServer     the class factory, the DLL exports and the          *)
(*                  references of the instance the factory hands out       *)
(*   SpecMethods    every method of the instance, and the factory, called  *)
(*                  with and without output locations                      *)
(***************************************************************************)
EXTENDS Integers, Sequences, FiniteSets, TLC

VARIABLES
    m_refCount,   \* ExplorerCommand::m_refCount
    alive,        \* the instance has been constructed and not yet deleted
    destroyed,    \* how many times ~ExplorerCommand has run
    touched,      \* m_refCount was read or written after the delete
    held,         \* thread -> number of references the thread owns
    pc,           \* thread -> "idle" | "released" (inside Release, after the decrement)
    refLocal,     \* thread -> the local refCount of its Release in progress
    destroyer,    \* the thread whose Release ran the delete (0: none)
    nAddRef,      \* completed InterlockedIncrement steps
    nRelease,     \* completed InterlockedDecrement steps
    lastRef,      \* the last completed AddRef / Release / QueryInterface call
    vsel,         \* SpecValidator: the selection handed to GetSelectedDrivePath
    vres,         \* SpecValidator: what GetSelectedDrivePath returned
    vresNested,   \* SpecValidator: what the nested copy of GetSelectedDrivePath returned
    sel,          \* Spec: the host's current selection
    hklm,         \* Spec: HKLM\SOFTWARE\DiskBench\ShellExtension
    hkcu,         \* Spec: HKCU\SOFTWARE\DiskBench\ShellExtension
    last,         \* Spec: the last completed host call and its outcome
    hInstance,    \* g_hInstance: the module DllMain recorded at process attach
    resolved,     \* the tool path most recently read from the registry by any call
    constructed,  \* how many times the ExplorerCommand constructor has run
    lastFac,      \* the last completed call on the class factory or the DLL exports
    serverLocks   \* LockServer(TRUE) calls the host has not yet undone

refVars == <<m_refCount, alive, destroyed, touched, held, pc, refLocal,
             destroyer, nAddRef, nRelease, lastRef>>
valVars == <<vsel, vres, vresNested>>
cmdVars == <<sel, hklm, hkcu, last>>
envVars == <<hInstance, resolved>>
facVars == <<constructed, lastFac, serverLocks>>
vars == <<refVars, valVars, cmdVars, envVars, facVars>>

-----------------------------------------------------------------------------
(* Bounds of the model *)

\* longest display path handed to the validator in SpecValidator
MaxPathLen == 4
\* longest display path of the first selected item in Spec
MaxSelLen == 3
\* threads sharing one ExplorerCommand instance in SpecRef
NumThreads == 2
\* cap on the number of InterlockedIncrement steps in SpecRef
MaxAddRefs == 3
\* cap on the number of ExplorerCommand constructions in SpecServer
MaxInstances == 2
\* cap on the LockServer(TRUE) calls outstanding in SpecServer
MaxLocks == 1

-----------------------------------------------------------------------------
(* Program constants *)

\* Windows MAX_PATH, the size of drivePath, exePath and the registry buffer
MAX_PATH == 260
\* L':'
COLON == 58
\* L'\\'
BACKSLASH == 92
\* L'/'
SLASH == 47
\* L'"'
QUOTE == 34
\* sizeof(wchar_t) on Windows, in sizeof(buffer)
WCHAR_SIZE == 2

\* SUCCEEDED(hr) / FAILED(hr) of the Windows SDK: the success codes the
\* program returns are S_OK and S_FALSE.
Succeeded(hr) == hr \in {"S_OK", "S_FALSE"}
Failed(hr) == ~Succeeded(hr)

Min(a, b) == IF a < b THEN a ELSE b

\* towupper on the code units the model uses (ASCII).
towupper(c) == IF c >= 97 /\ c <= 122 THEN c - 32 ELSE c

\* StringCchCopy(dest, cchDest, src): at most cchDest - 1 characters.
StringCchCopy(cchDest, src) ==
    SubSeq(src, 1, Min(Len(src), cchDest - 1))

-----------------------------------------------------------------------------
(* Selections: the host's IShellItemArray, as the narrow interface the     *)
(* code uses: GetCount, GetItemAt(0), IShellItem::GetDisplayName.          *)

\* code units of display paths: c C 1 : \ /
Alphabet == {99, 67, 49, COLON, BACKSLASH, SLASH}

\* the code units of the paths the host calls are run on: c 1 : \
HostAlphabet == {99, 49, COLON, BACKSLASH}

PathsUpTo(n, chars) == UNION {[1..k -> chars] : k \in 0..n}

\* An item: the HRESULT of GetDisplayName(SIGDN_FILESYSPATH), whether it
\* wrote a string, and the string.
NamedItem(p) == [nameHr |-> "S_OK", hasName |-> TRUE, name |-> p]
NoNameItem == [nameHr |-> "S_OK", hasName |-> FALSE, name |-> <<>>]
NonFsItem == [nameHr |-> "E_INVALIDARG", hasName |-> FALSE, name |-> <<>>]

MkSel(isNull, countHr, itemHr, items) ==
    [isNull |-> isNull, countHr |-> countHr, itemHr |-> itemHr, items |-> items]

NullSel == MkSel(TRUE, "S_OK", "S_OK", <<>>)

\* a second selected item that is itself a drive root, "C:"
SecondDrive == NamedItem(<<67, COLON>>)
\* a second selected item that is a folder, "C:\c"
SecondFolder == NamedItem(<<67, COLON, BACKSLASH, 99>>)

\* The selection of item `it` followed by the items `more`.
SelOf(it, more) == MkSel(FALSE, "S_OK", "S_OK", <<it>> \o more)

OddSels ==
    { NullSel,
      MkSel(FALSE, "E_FAIL", "S_OK", <<>>),
      MkSel(FALSE, "S_OK", "S_OK", <<>>),
      MkSel(FALSE, "S_OK", "E_FAIL", <<SecondDrive>>),
      SelOf(NoNameItem, <<>>), SelOf(NoNameItem, <<SecondDrive>>),
      SelOf(NonFsItem, <<>>), SelOf(NonFsItem, <<SecondDrive>>) }

ValidatorSelections ==
    OddSels \cup
    { SelOf(NamedItem(p), more) :
        p \in PathsUpTo(MaxPathLen, Alphabet),
        more \in {<<>>, <<SecondDrive>>, <<SecondFolder>>} }

\* the drive and the folder of the documented scenarios: "D:\" and
\* "D:\Projects"
ScenarioDrive == <<68, COLON, BACKSLASH>>
ScenarioFolder == <<68, COLON, BACKSLASH, 80, 114, 111, 106, 101, 99, 116, 115>>

HostPaths == PathsUpTo(MaxSelLen, HostAlphabet) \cup {ScenarioDrive, ScenarioFolder}

HostSelections ==
    OddSels \cup
    { SelOf(NamedItem(p), more) :
        p \in HostPaths, more \in {<<>>, <<SecondDrive>>} }

-----------------------------------------------------------------------------
(* ExplorerCommand::GetSelectedDrivePath (the SelectionValidator).         *)
(* pszPath0 is the caller's buffer before the call; the result holds the   *)
(* buffer after it, the indices passed to GetItemAt, and the resource      *)
(* bookkeeping (item references and display-name strings).                 *)

\* wchar_t drivePath[4] = { towupper(pszName[0]), L':', L'\\', 0 }
DriveToken(pszName) == <<towupper(pszName[1]), COLON, BACKSLASH>>

\* the test of lines 271 and 274 on the display name
IsDriveRootNameExact2(pszName) == Len(pszName) = 2 /\ pszName[2] = COLON
IsDriveRootName(pszName) ==
    LET nameLen == Len(pszName)
    IN  /\ nameLen >= 2
        /\ pszName[2] = COLON
        /\ \/ nameLen = 2
           \/ nameLen = 3 /\ (pszName[3] = BACKSLASH \/ pszName[3] = SLASH)

ValidatorOut(hr, path, got, rel, names, frees) ==
    [hr |-> hr, pszPath |-> path, itemsGot |-> got, itemReleases |-> rel,
     namesGot |-> names, nameFrees |-> frees]

NoValidatorOut == ValidatorOut("not called", <<>>, <<>>, 0, 0, 0)

\* GetSelectedDrivePath that handles a selection of exactly one item only
GetSelectedDrivePathSingleOnly(psiItemArray, pszPath0, cchPath) ==
    IF psiItemArray.isNull \/ cchPath = 0
    THEN ValidatorOut("E_INVALIDARG", pszPath0, <<>>, 0, 0, 0)
    ELSE IF Failed(psiItemArray.countHr) \/ Len(psiItemArray.items) # 1
    THEN ValidatorOut("S_FALSE", pszPath0, <<>>, 0, 0, 0)
    ELSE IF Failed(psiItemArray.itemHr)
    THEN ValidatorOut("E_FAIL", pszPath0, <<0>>, 0, 0, 0)
    ELSE LET psi == psiItemArray.items[1]
             named == Succeeded(psi.nameHr) /\ psi.hasName
             got == IF psi.hasName THEN 1 ELSE 0
         IN  IF named /\ IsDriveRootName(psi.name)
             THEN ValidatorOut("S_OK",
                               StringCchCopy(cchPath, DriveToken(psi.name)),
                               <<0>>, 1, got, 1)
             ELSE ValidatorOut("S_FALSE", pszPath0, <<0>>, 1, got,
                               IF named THEN 1 ELSE 0)

\* GetSelectedDrivePath that frees the display name on the accepting path
\* only
GetSelectedDrivePathLeaksName(psiItemArray, pszPath0, cchPath) ==
    IF psiItemArray.isNull \/ cchPath = 0
    THEN ValidatorOut("E_INVALIDARG", pszPath0, <<>>, 0, 0, 0)
    ELSE IF Failed(psiItemArray.countHr) \/ Len(psiItemArray.items) = 0
    THEN ValidatorOut("S_FALSE", pszPath0, <<>>, 0, 0, 0)
    ELSE IF Failed(psiItemArray.itemHr)
    THEN ValidatorOut("E_FAIL", pszPath0, <<0>>, 0, 0, 0)
    ELSE LET psi == psiItemArray.items[1]
             named == Succeeded(psi.nameHr) /\ psi.hasName
             got == IF psi.hasName THEN 1 ELSE 0
         IN  IF named /\ IsDriveRootName(psi.name)
             THEN ValidatorOut("S_OK",
                               StringCchCopy(cchPath, DriveToken(psi.name)),
                               <<0>>, 1, got, 1)
             ELSE ValidatorOut("S_FALSE", pszPath0, <<0>>, 1, got, 0)

GetSelectedDrivePath(psiItemArray, pszPath0, cchPath) ==
    IF psiItemArray.isNull \/ cchPath = 0
    THEN ValidatorOut("E_INVALIDARG", pszPath0, <<>>, 0, 0, 0)
    ELSE IF Failed(psiItemArray.countHr) \/ Len(psiItemArray.items) = 0
    THEN ValidatorOut("S_FALSE", pszPath0, <<>>, 0, 0, 0)
    ELSE IF Failed(psiItemArray.itemHr)
    THEN ValidatorOut("E_FAIL", pszPath0, <<0>>, 0, 0, 0)
    ELSE LET psi == psiItemArray.items[1]
             named == Succeeded(psi.nameHr) /\ psi.hasName
             got == IF psi.hasName THEN 1 ELSE 0
         IN  IF named /\ IsDriveRootName(psi.name)
             THEN ValidatorOut("S_OK",
                               StringCchCopy(cchPath, DriveToken(psi.name)),
                               <<0>>, 1, got, 1)
             ELSE ValidatorOut("S_FALSE", pszPath0, <<0>>, 1, got,
                               IF named THEN 1 ELSE 0)

\* ExplorerCommand::GetSelectedDrivePath of the nested copy
\* (src/DiskBench/DiskBench.ShellExtension.Cpp): the name must be exactly
\* two characters with ':' second, and it is copied out as it is.
GetSelectedDrivePathNested(psiItemArray, pszPath0, cchPath) ==
    IF psiItemArray.isNull \/ cchPath = 0
    THEN ValidatorOut("E_INVALIDARG", pszPath0, <<>>, 0, 0, 0)
    ELSE IF Failed(psiItemArray.countHr) \/ Len(psiItemArray.items) = 0
    THEN ValidatorOut("S_FALSE", pszPath0, <<>>, 0, 0, 0)
    ELSE IF Failed(psiItemArray.itemHr)
    THEN ValidatorOut("E_FAIL", pszPath0, <<0>>, 0, 0, 0)
    ELSE LET psi == psiItemArray.items[1]
             named == Succeeded(psi.nameHr) /\ psi.hasName
             got == IF psi.hasName THEN 1 ELSE 0
         IN  IF named /\ Len(psi.name) = 2 /\ psi.name[2] = COLON
             THEN ValidatorOut("S_OK", StringCchCopy(cchPath, psi.name),
                               <<0>>, 1, got, 1)
             ELSE ValidatorOut("S_FALSE", pszPath0, <<0>>, 1, got,
                               IF named THEN 1 ELSE 0)


-----------------------------------------------------------------------------
(* Reference counting: ExplorerCommand's constructor, AddRef, Release and  *)
(* QueryInterface, called by several threads on one instance.  A thread    *)
(* calls into the object only through a reference it owns; AddRef and a    *)
(* successful QueryInterface hand the new reference to a thread `u`.       *)

Threads == 1..NumThreads

\* the interface ids a caller may ask for
IIDs == {"IID_IUnknown", "IID_IExplorerCommand", "IID_IClassFactory"}

\* ExplorerCommand() : m_refCount(1)
InitialRefCount == 1

\* InterlockedIncrement / InterlockedDecrement: the new value, atomically
InterlockedIncrement(c) == c + 1
InterlockedDecrement(c) == c - 1

\* Release, line 55: if (refCount == 0), on the local the decrement returned
ReleaseSeesOne(t) == refLocal[t].refCount = 1
ReleaseRereadsMember(t) == m_refCount = 0
ReleaseSeesZero(t) == refLocal[t].refCount = 0

\* QueryInterface, line 36: the identities the object answers to
QueryInterfaceAnswersAll(riid) == TRUE
QueryInterfaceSupports(riid) == riid = "IID_IUnknown" \/ riid = "IID_IExplorerCommand"

RefCall(op, t, riid, ppvIsNull, before, after, ret, hr, ppv) ==
    [op |-> op, t |-> t, riid |-> riid, ppvIsNull |-> ppvIsNull,
     before |-> before, after |-> after, ret |-> ret, hr |-> hr, ppv |-> ppv]

NoRefCall == RefCall("none", 0, "-", FALSE, 0, 0, 0, "-", "-")

RefInit ==
    /\ m_refCount = InitialRefCount
    /\ alive = TRUE
    /\ destroyed = 0
    /\ touched = FALSE
    /\ held = [t \in Threads |-> IF t = 1 THEN 1 ELSE 0]
    /\ pc = [t \in Threads |-> "idle"]
    /\ refLocal = [t \in Threads |-> [before |-> 0, refCount |-> 0]]
    /\ destroyer = 0
    /\ nAddRef = 0
    /\ nRelease = 0
    /\ lastRef = NoRefCall

\* ULONG AddRef(): return InterlockedIncrement(&m_refCount);
AddRef(t, u) ==
    /\ pc[t] = "idle" /\ held[t] > 0
    /\ nAddRef < MaxAddRefs
    /\ m_refCount' = InterlockedIncrement(m_refCount)
    /\ touched' = (touched \/ ~alive)
    /\ held' = [held EXCEPT ![u] = @ + 1]
    /\ nAddRef' = nAddRef + 1
    /\ lastRef' = RefCall("AddRef", t, "-", FALSE, m_refCount, m_refCount',
                          InterlockedIncrement(m_refCount), "-", "-")
    /\ UNCHANGED <<alive, destroyed, pc, refLocal, destroyer, nRelease>>
    /\ UNCHANGED <<valVars, cmdVars, envVars, facVars>>

\* Release, line 54: LONG refCount = InterlockedDecrement(&m_refCount);
ReleaseDecrement(t) ==
    /\ pc[t] = "idle" /\ held[t] > 0
    /\ m_refCount' = InterlockedDecrement(m_refCount)
    /\ touched' = (touched \/ ~alive)
    /\ refLocal' = [refLocal EXCEPT ![t] =
                      [before |-> m_refCount,
                       refCount |-> InterlockedDecrement(m_refCount)]]
    /\ held' = [held EXCEPT ![t] = @ - 1]
    /\ pc' = [pc EXCEPT ![t] = "released"]
    /\ nRelease' = nRelease + 1
    /\ UNCHANGED <<alive, destroyed, destroyer, nAddRef, lastRef>>
    /\ UNCHANGED <<valVars, cmdVars, envVars, facVars>>

\* Release, lines 55-57: if (refCount == 0) delete this; return refCount;
ReleaseFinish(t) ==
    /\ pc[t] = "released"
    /\ IF ReleaseSeesZero(t)
       THEN /\ destroyed' = destroyed + 1
            /\ alive' = FALSE
            /\ destroyer' = t
       ELSE UNCHANGED <<destroyed, alive, destroyer>>
    /\ pc' = [pc EXCEPT ![t] = "idle"]
    /\ lastRef' = RefCall("Release", t, "-", FALSE, refLocal[t].before,
                          refLocal[t].refCount, refLocal[t].refCount, "-", "-")
    /\ UNCHANGED <<m_refCount, touched, held, refLocal, nAddRef, nRelease>>
    /\ UNCHANGED <<valVars, cmdVars, envVars, facVars>>

\* HRESULT QueryInterface(REFIID riid, void** ppv); the only shared state it
\* touches is m_refCount, in its one AddRef() call.
QueryInterface(t, u, riid, ppvIsNull) ==
    /\ pc[t] = "idle" /\ held[t] > 0
    /\ IF ppvIsNull
       THEN /\ lastRef' = RefCall("QueryInterface", t, riid, TRUE, m_refCount,
                                  m_refCount, 0, "E_POINTER", "unwritten")
            /\ UNCHANGED <<m_refCount, touched, held, nAddRef>>
       ELSE IF QueryInterfaceSupports(riid)
       THEN /\ nAddRef < MaxAddRefs
            /\ m_refCount' = InterlockedIncrement(m_refCount)
            /\ touched' = (touched \/ ~alive)
            /\ held' = [held EXCEPT ![u] = @ + 1]
            /\ nAddRef' = nAddRef + 1
            /\ lastRef' = RefCall("QueryInterface", t, riid, FALSE, m_refCount,
                                  m_refCount', 0, "S_OK", "this")
       ELSE /\ lastRef' = RefCall("QueryInterface", t, riid, FALSE, m_refCount,
                                  m_refCount, 0, "E_NOINTERFACE", "nullptr")
            /\ UNCHANGED <<m_refCount, touched, held, nAddRef>>
    /\ UNCHANGED <<alive, destroyed, pc, refLocal, destroyer, nRelease>>
    /\ UNCHANGED <<valVars, cmdVars, envVars, facVars>>

RefNext ==
    \/ \E t \in Threads, u \in Threads : AddRef(t, u)
    \/ \E t \in Threads : ReleaseDecrement(t)
    \/ \E t \in Threads : ReleaseFinish(t)
    \/ \E t \in Threads, u \in Threads, riid \in IIDs, n \in BOOLEAN :
          QueryInterface(t, u, riid, n)

-----------------------------------------------------------------------------
(* The registry: the key SOFTWARE\DiskBench\ShellExtension in each scope   *)
(* and its string value "ExePath" (stored with its terminating NUL).       *)

KeyAbsent == [present |-> FALSE, hasExePath |-> FALSE, data |-> <<>>]
KeyNoEntry == [present |-> TRUE, hasExePath |-> FALSE, data |-> <<>>]
KeyWith(path) == [present |-> TRUE, hasExePath |-> TRUE, data |-> path]

\* tool paths an installer may have written: "t t", one that fills the
\* MAX_PATH buffer exactly, and one that is a character too long
ToolA == <<116, 32, 116>>
ToolLongest == [i \in 1..(MAX_PATH - 1) |-> 120]
ToolTooLong == [i \in 1..MAX_PATH |-> 120]
ToolPaths == {ToolA, ToolLongest, ToolTooLong}

RegKeys == {KeyAbsent, KeyNoEntry} \cup {KeyWith(path) : path \in ToolPaths}

\* RegOpenKeyEx(scope, CONFIG_REG_PATH, 0, KEY_READ, &hKey)
RegOpenKeyEx(key) ==
    IF key.present THEN "ERROR_SUCCESS" ELSE "ERROR_FILE_NOT_FOUND"

\* RegQueryValueEx(hKey, L"ExePath", ..., buffer, &bufferSize): the data and
\* its NUL must fit the bufferSize bytes, else ERROR_MORE_DATA
RegQueryValueEx(key, bufferSize) ==
    IF ~key.hasExePath
    THEN [result |-> "ERROR_FILE_NOT_FOUND", buffer |-> <<>>]
    ELSE IF (Len(key.data) + 1) * WCHAR_SIZE > bufferSize
    THEN [result |-> "ERROR_MORE_DATA", buffer |-> <<>>]
    ELSE [result |-> "ERROR_SUCCESS", buffer |-> key.data]

ConfigOut(hr, path, opens, opened, closes) ==
    [hr |-> hr, pszExePath |-> path, opens |-> opens, opened |-> opened,
     closes |-> closes]

NoConfigOut == ConfigOut("not called", <<>>, <<>>, 0, 0)

\* ReadExePathFromRegistry, lines 325-339: the query on the opened key
QueryExePath(key, opens, pszExePath0, cchExePath) ==
    LET q == RegQueryValueEx(key, MAX_PATH * WCHAR_SIZE)
    IN  IF q.result # "ERROR_SUCCESS"
        THEN ConfigOut("E_FAIL", pszExePath0, opens, 1, 1)
        ELSE ConfigOut("S_OK", StringCchCopy(cchExePath, q.buffer), opens, 1, 1)

\* ReadExePathFromRegistry that tries the per-user scope first
ReadExePathUserFirst(pszExePath0, cchExePath) ==
    IF RegOpenKeyEx(hkcu) # "ERROR_SUCCESS"
    THEN IF RegOpenKeyEx(hklm) # "ERROR_SUCCESS"
         THEN ConfigOut("E_FAIL", pszExePath0, <<"HKCU", "HKLM">>, 0, 0)
         ELSE QueryExePath(hklm, <<"HKCU", "HKLM">>, pszExePath0, cchExePath)
    ELSE QueryExePath(hkcu, <<"HKCU">>, pszExePath0, cchExePath)

\* ReadExePathFromRegistry that goes on to the per-user scope when the
\* machine-wide key has no usable ExePath entry
ReadExePathFallsThrough(pszExePath0, cchExePath) ==
    IF RegOpenKeyEx(hklm) # "ERROR_SUCCESS"
    THEN IF RegOpenKeyEx(hkcu) # "ERROR_SUCCESS"
         THEN ConfigOut("E_FAIL", pszExePath0, <<"HKLM", "HKCU">>, 0, 0)
         ELSE QueryExePath(hkcu, <<"HKLM", "HKCU">>, pszExePath0, cchExePath)
    ELSE LET first == QueryExePath(hklm, <<"HKLM">>, pszExePath0, cchExePath)
         IN  IF first.hr = "S_OK" \/ RegOpenKeyEx(hkcu) # "ERROR_SUCCESS"
             THEN first
             ELSE LET second == QueryExePath(hkcu, <<"HKLM", "HKCU">>,
                                             pszExePath0, cchExePath)
                  IN  ConfigOut(second.hr, second.pszExePath, second.opens, 2, 2)

\* ReadExePathFromRegistry that keeps the first path it resolved and
\* answers from it afterwards
ReadExePathCached(pszExePath0, cchExePath) ==
    IF resolved # <<>>
    THEN ConfigOut("S_OK", StringCchCopy(cchExePath, resolved), <<>>, 0, 0)
    ELSE IF RegOpenKeyEx(hklm) # "ERROR_SUCCESS"
    THEN IF RegOpenKeyEx(hkcu) # "ERROR_SUCCESS"
         THEN ConfigOut("E_FAIL", pszExePath0, <<"HKLM", "HKCU">>, 0, 0)
         ELSE QueryExePath(hkcu, <<"HKLM", "HKCU">>, pszExePath0, cchExePath)
    ELSE QueryExePath(hklm, <<"HKLM">>, pszExePath0, cchExePath)

\* ExplorerCommand::ReadExePathFromRegistry (the ConfigResolver)
ReadExePathFromRegistry(pszExePath0, cchExePath) ==
    IF RegOpenKeyEx(hklm) # "ERROR_SUCCESS"
    THEN IF RegOpenKeyEx(hkcu) # "ERROR_SUCCESS"
         THEN ConfigOut("E_FAIL", pszExePath0, <<"HKLM", "HKCU">>, 0, 0)
         ELSE QueryExePath(hkcu, <<"HKLM", "HKCU">>, pszExePath0, cchExePath)
    ELSE QueryExePath(hklm, <<"HKLM">>, pszExePath0, cchExePath)

\* ExplorerCommand::GetExePath
GetExePath(pszExePath0, cchExePath) ==
    IF cchExePath = 0
    THEN ConfigOut("E_INVALIDARG", pszExePath0, <<>>, 0, 0)
    ELSE ReadExePathFromRegistry(pszExePath0, cchExePath)

-----------------------------------------------------------------------------
(* The host calls GetState and Invoke *)

\* L" --quick " between the two quoted arguments of the format string
QuickFlag == <<32, 45, 45, 113, 117, 105, 99, 107, 32>>

\* wchar_t cmdLine[MAX_PATH * 2]
CmdLineCchShort == MAX_PATH
CmdLineCch == MAX_PATH * 2

\* StringCchPrintf(cmdLine, cch, L"\"%s\" --quick \"%s\"", exePath, drivePath)
FormatCmdLine(cch, exePath, drivePath) ==
    StringCchCopy(cch, <<QUOTE>> \o exePath \o <<QUOTE>> \o QuickFlag
                         \o <<QUOTE>> \o drivePath \o <<QUOTE>>)

\* The CreateProcess part of one Invoke: attempts counts the CreateProcess
\* calls, closedProcess and closedThread the CloseHandle calls on
\* pi.hProcess and pi.hThread, waited is whether the call waited on the
\* process.
Launch(attempted, app, cmdLine, started, closedProcess, closedThread) ==
    [attempted |-> attempted, app |-> app, cmdLine |-> cmdLine,
     started |-> started, closedProcess |-> closedProcess,
     closedThread |-> closedThread,
     attempts |-> IF attempted THEN 1 ELSE 0, waited |-> FALSE]

NoLaunch == Launch(FALSE, <<>>, <<>>, FALSE, 0, 0)

Call(op, flag, outNull, hr, out, v, cfg, launch) ==
    [op |-> op, flag |-> flag, outNull |-> outNull, hr |-> hr, out |-> out,
     validator |-> v, config |-> cfg, launch |-> launch, text |-> <<>>]

NoCall == Call("none", FALSE, FALSE, "-", "-", NoValidatorOut, NoConfigOut, NoLaunch)

\* ExplorerCommand::GetState with the validator's failure returned to the host
GetStatePropagatesHr(psiItemArray, fOkToBeSlow, pCmdStateIsNull) ==
    IF pCmdStateIsNull
    THEN Call("GetState", fOkToBeSlow, TRUE, "E_POINTER", "unwritten",
              NoValidatorOut, NoConfigOut, NoLaunch)
    ELSE IF psiItemArray.isNull
    THEN Call("GetState", fOkToBeSlow, FALSE, "S_OK", "ECS_HIDDEN",
              NoValidatorOut, NoConfigOut, NoLaunch)
    ELSE LET v == GetSelectedDrivePath(psiItemArray, <<>>, MAX_PATH)
         IN  IF Failed(v.hr)
             THEN Call("GetState", fOkToBeSlow, FALSE, v.hr, "unwritten",
                       v, NoConfigOut, NoLaunch)
             ELSE Call("GetState", fOkToBeSlow, FALSE, "S_OK",
                       IF Len(v.pszPath) > 0 THEN "ECS_ENABLED" ELSE "ECS_HIDDEN",
                       v, NoConfigOut, NoLaunch)

\* ExplorerCommand::GetState that takes any success of the validator as a drive
GetStateIgnoresToken(psiItemArray, fOkToBeSlow, pCmdStateIsNull) ==
    IF pCmdStateIsNull
    THEN Call("GetState", fOkToBeSlow, TRUE, "E_POINTER", "unwritten",
              NoValidatorOut, NoConfigOut, NoLaunch)
    ELSE IF psiItemArray.isNull
    THEN Call("GetState", fOkToBeSlow, FALSE, "S_OK", "ECS_HIDDEN",
              NoValidatorOut, NoConfigOut, NoLaunch)
    ELSE LET v == GetSelectedDrivePath(psiItemArray, <<>>, MAX_PATH)
         IN  Call("GetState", fOkToBeSlow, FALSE, "S_OK",
                  IF Succeeded(v.hr) THEN "ECS_ENABLED" ELSE "ECS_HIDDEN",
                  v, NoConfigOut, NoLaunch)

\* ExplorerCommand::GetState: the outcome of one call
GetStateCall(psiItemArray, fOkToBeSlow, pCmdStateIsNull) ==
    IF pCmdStateIsNull
    THEN Call("GetState", fOkToBeSlow, TRUE, "E_POINTER", "unwritten",
              NoValidatorOut, NoConfigOut, NoLaunch)
    ELSE IF psiItemArray.isNull
    THEN Call("GetState", fOkToBeSlow, FALSE, "S_OK", "ECS_HIDDEN",
              NoValidatorOut, NoConfigOut, NoLaunch)
    ELSE LET v == GetSelectedDrivePath(psiItemArray, <<>>, MAX_PATH)
         IN  Call("GetState", fOkToBeSlow, FALSE, "S_OK",
                  IF Succeeded(v.hr) /\ Len(v.pszPath) > 0
                  THEN "ECS_ENABLED" ELSE "ECS_HIDDEN",
                  v, NoConfigOut, NoLaunch)

\* Invoke that calls CreateProcess a second time when the first call failed
LaunchToolRetries(v, cfg, createOk) ==
    LET exePath == cfg.pszExePath
        cmdLine == FormatCmdLine(CmdLineCch, exePath, v.pszPath)
    IN  IF createOk
        THEN Call("Invoke", FALSE, FALSE, "S_OK", "-", v, cfg,
                  Launch(TRUE, exePath, cmdLine, TRUE, 1, 1))
        ELSE Call("Invoke", FALSE, FALSE, "E_FAIL", "-", v, cfg,
                  [Launch(TRUE, exePath, cmdLine, FALSE, 0, 0)
                      EXCEPT !.attempts = 2])

\* Invoke, lines 207-223: build the command line and start the process;
\* createOk is whether the operating system could start it.
LaunchTool(v, cfg, createOk) ==
    LET exePath == cfg.pszExePath
        cmdLine == FormatCmdLine(CmdLineCch, exePath, v.pszPath)
    IN  IF createOk
        THEN Call("Invoke", FALSE, FALSE, "S_OK", "-", v, cfg,
                  Launch(TRUE, exePath, cmdLine, TRUE, 1, 1))
        ELSE Call("Invoke", FALSE, FALSE, "E_FAIL", "-", v, cfg,
                  Launch(TRUE, exePath, cmdLine, FALSE, 0, 0))

\* ExplorerCommand::Invoke that resolves the tool path before it looks at
\* the selection
InvokeConfigFirst(psiItemArray, createOk) ==
    IF psiItemArray.isNull
    THEN Call("Invoke", FALSE, FALSE, "E_POINTER", "-",
              NoValidatorOut, NoConfigOut, NoLaunch)
    ELSE LET cfg == GetExePath(<<>>, MAX_PATH)
             v == GetSelectedDrivePath(psiItemArray, <<>>, MAX_PATH)
         IN  IF Failed(cfg.hr)
             THEN Call("Invoke", FALSE, FALSE, "E_FAIL", "-",
                       NoValidatorOut, cfg, NoLaunch)
             ELSE IF Failed(v.hr) \/ Len(v.pszPath) = 0
             THEN Call("Invoke", FALSE, FALSE, "S_FALSE", "-", v, cfg, NoLaunch)
             ELSE LaunchTool(v, cfg, createOk)

\* ExplorerCommand::Invoke that does not check the result of GetExePath
InvokeIgnoresConfigFailure(psiItemArray, createOk) ==
    IF psiItemArray.isNull
    THEN Call("Invoke", FALSE, FALSE, "E_POINTER", "-",
              NoValidatorOut, NoConfigOut, NoLaunch)
    ELSE LET v == GetSelectedDrivePath(psiItemArray, <<>>, MAX_PATH)
         IN  IF Failed(v.hr) \/ Len(v.pszPath) = 0
             THEN Call("Invoke", FALSE, FALSE, "S_FALSE", "-",
                       v, NoConfigOut, NoLaunch)
             ELSE LaunchTool(v, GetExePath(<<>>, MAX_PATH), createOk)

\* ExplorerCommand::Invoke that reports an unresolved tool path as "not
\* handled"
InvokeSoftConfigFailure(psiItemArray, createOk) ==
    IF psiItemArray.isNull
    THEN Call("Invoke", FALSE, FALSE, "E_POINTER", "-",
              NoValidatorOut, NoConfigOut, NoLaunch)
    ELSE LET v == GetSelectedDrivePath(psiItemArray, <<>>, MAX_PATH)
         IN  IF Failed(v.hr) \/ Len(v.pszPath) = 0
             THEN Call("Invoke", FALSE, FALSE, "S_FALSE", "-",
                       v, NoConfigOut, NoLaunch)
             ELSE LET cfg == GetExePath(<<>>, MAX_PATH)
                  IN  IF Failed(cfg.hr)
                      THEN Call("Invoke", FALSE, FALSE, "S_FALSE", "-",
                                v, cfg, NoLaunch)
                      ELSE LaunchTool(v, cfg, createOk)

\* ExplorerCommand::Invoke: the outcome of one call
InvokeCall(psiItemArray, createOk) ==
    IF psiItemArray.isNull
    THEN Call("Invoke", FALSE, FALSE, "E_POINTER", "-",
              NoValidatorOut, NoConfigOut, NoLaunch)
    ELSE LET v == GetSelectedDrivePath(psiItemArray, <<>>, MAX_PATH)
         IN  IF Failed(v.hr) \/ Len(v.pszPath) = 0
             THEN Call("Invoke", FALSE, FALSE, "S_FALSE", "-",
                       v, NoConfigOut, NoLaunch)
             ELSE LET cfg == GetExePath(<<>>, MAX_PATH)
                  IN  IF Failed(cfg.hr)
                      THEN Call("Invoke", FALSE, FALSE, "E_FAIL", "-",
                                v, cfg, NoLaunch)
                      ELSE LaunchTool(v, cfg, createOk)

-----------------------------------------------------------------------------
(* The module, and the methods that return a string or a constant *)

\* The module handle DllMain stored in g_hInstance, with the path of the
\* DLL file; readable is whether GetModuleFileNameW can produce it.
Module(isNull, readable, path) ==
    [isNull |-> isNull, readable |-> readable, path |-> path]

DllShort == <<100, 32, 100>>
DllLongest == [i \in 1..(MAX_PATH - 1) |-> 100]
DllTooLong == [i \in 1..MAX_PATH |-> 100]

\* g_hInstance after DLL_PROCESS_ATTACH
ModuleStates ==
    {Module(FALSE, TRUE, DllShort), Module(FALSE, TRUE, DllLongest),
     Module(FALSE, TRUE, DllTooLong), Module(FALSE, FALSE, <<>>)}

\* GetModuleFileNameW(hModule, lpFilename, nSize): the length copied, nSize
\* when the path had to be truncated, 0 on failure
GetModuleFileNameW(hModule, nSize) ==
    IF ~hModule.readable
    THEN [len |-> 0, lpFilename |-> <<>>]
    ELSE IF Len(hModule.path) < nSize
         THEN [len |-> Len(hModule.path), lpFilename |-> hModule.path]
         ELSE [len |-> nSize, lpFilename |-> SubSeq(hModule.path, 1, nSize - 1)]

\* What a call leaves in `resolved`: the tool path it read, if it read one
Remember(cfg) ==
    IF cfg.hr = "S_OK" THEN cfg.pszExePath ELSE resolved

\* A call that hands a string to the host
TextCall(op, outNull, hr, out, text, cfg) ==
    [Call(op, FALSE, outNull, hr, out, NoValidatorOut, cfg, NoLaunch)
        EXCEPT !.text = text]

\* L",0", the icon index appended by the format string L"%s,0"
IconIndex == <<44, 48>>

\* GetIcon, lines 96-98: the icon comes from the DLL whenever its path is
\* known
IconPathPrefersModule(hasExePath, exePath, hasDllPath, dllPath) ==
    IF hasDllPath THEN [found |-> TRUE, path |-> dllPath]
    ELSE IF hasExePath THEN [found |-> TRUE, path |-> exePath]
    ELSE [found |-> FALSE, path |-> <<>>]

\* GetIcon, line 98:
\* iconPath = hasExePath ? exePath : (hasDllPath ? dllPath : nullptr)
IconPath(hasExePath, exePath, hasDllPath, dllPath) ==
    IF hasExePath THEN [found |-> TRUE, path |-> exePath]
    ELSE IF hasDllPath THEN [found |-> TRUE, path |-> dllPath]
    ELSE [found |-> FALSE, path |-> <<>>]

\* GetIcon that resolves the tool path before it tests ppszIcon
GetIconResolvesFirst(ppszIconIsNull, allocOk) ==
    LET cfg == GetExePath(<<>>, MAX_PATH)
        hasExePath == Succeeded(cfg.hr)
        modFile == IF hInstance.isNull
                   THEN [len |-> 0, lpFilename |-> <<>>]
                   ELSE GetModuleFileNameW(hInstance, MAX_PATH)
        hasDllPath == ~hInstance.isNull /\ modFile.len > 0 /\ modFile.len < MAX_PATH
        iconPath == IconPath(hasExePath, cfg.pszExePath,
                             hasDllPath, modFile.lpFilename)
        len == Len(iconPath.path) + 10
    IN  IF ppszIconIsNull
        THEN TextCall("GetIcon", TRUE, "E_POINTER", "unwritten", <<>>, cfg)
        ELSE IF iconPath.found
             THEN IF allocOk
                  THEN TextCall("GetIcon", FALSE, "S_OK", "string",
                                StringCchCopy(len, iconPath.path \o IconIndex), cfg)
                  ELSE TextCall("GetIcon", FALSE, "E_OUTOFMEMORY", "nullptr", <<>>, cfg)
             ELSE TextCall("GetIcon", FALSE, "S_FALSE", "nullptr", <<>>, cfg)

\* ExplorerCommand::GetIcon(psiItemArray, ppszIcon); the selection is not
\* referenced.  allocOk is whether CoTaskMemAlloc returns memory.
GetIconCall(ppszIconIsNull, allocOk) ==
    IF ppszIconIsNull
    THEN TextCall("GetIcon", TRUE, "E_POINTER", "unwritten", <<>>, NoConfigOut)
    ELSE LET cfg == GetExePath(<<>>, MAX_PATH)
             hasExePath == Succeeded(cfg.hr)
             modFile == IF hInstance.isNull
                    THEN [len |-> 0, lpFilename |-> <<>>]
                    ELSE GetModuleFileNameW(hInstance, MAX_PATH)
             hasDllPath == ~hInstance.isNull /\ modFile.len > 0 /\ modFile.len < MAX_PATH
             iconPath == IconPath(hasExePath, cfg.pszExePath,
                                  hasDllPath, modFile.lpFilename)
             len == Len(iconPath.path) + 10
         IN  IF iconPath.found
             THEN IF allocOk
                  THEN TextCall("GetIcon", FALSE, "S_OK", "string",
                                StringCchCopy(len, iconPath.path \o IconIndex), cfg)
                  ELSE TextCall("GetIcon", FALSE, "E_OUTOFMEMORY", "nullptr", <<>>, cfg)
             ELSE TextCall("GetIcon", FALSE, "S_FALSE", "nullptr", <<>>, cfg)

\* L"Benchmark Drive Performance"
COMMAND_TITLE ==
    <<66, 101, 110, 99, 104, 109, 97, 114, 107, 32, 68, 114, 105, 118, 101,
      32, 80, 101, 114, 102, 111, 114, 109, 97, 110, 99, 101>>

\* L"Run DiskBench on this drive"
COMMAND_TOOLTIP ==
    <<82, 117, 110, 32, 68, 105, 115, 107, 66, 101, 110, 99, 104, 32, 111,
      110, 32, 116, 104, 105, 115, 32, 100, 114, 105, 118, 101>>

\* GetTitle and GetToolTip: a CoTaskMemAlloc'ed copy of a constant string
ConstantTextCall(op, outIsNull, allocOk, text) ==
    IF outIsNull
    THEN TextCall(op, TRUE, "E_POINTER", "unwritten", <<>>, NoConfigOut)
    ELSE IF allocOk
         THEN TextCall(op, FALSE, "S_OK", "string",
                       StringCchCopy(Len(text) + 1, text), NoConfigOut)
         ELSE TextCall(op, FALSE, "E_OUTOFMEMORY", "nullptr", <<>>, NoConfigOut)

\* ExplorerCommand::GetTitle(psiItemArray, ppszName)
GetTitleCall(ppszNameIsNull, allocOk) ==
    ConstantTextCall("GetTitle", ppszNameIsNull, allocOk, COMMAND_TITLE)

\* ExplorerCommand::GetToolTip(psiItemArray, ppszInfotip)
GetToolTipCall(ppszInfotipIsNull, allocOk) ==
    ConstantTextCall("GetToolTip", ppszInfotipIsNull, allocOk, COMMAND_TOOLTIP)

\* ExplorerCommand::GetCanonicalName(pguidCommandName)
GetCanonicalNameCall(pguidCommandNameIsNull) ==
    IF pguidCommandNameIsNull
    THEN TextCall("GetCanonicalName", TRUE, "E_POINTER", "unwritten", <<>>, NoConfigOut)
    ELSE TextCall("GetCanonicalName", FALSE, "S_OK",
                  "CLSID_DiskBenchExplorerCommand", <<>>, NoConfigOut)

\* ExplorerCommand::GetFlags(pFlags)
GetFlagsCall(pFlagsIsNull) ==
    IF pFlagsIsNull
    THEN TextCall("GetFlags", TRUE, "E_POINTER", "unwritten", <<>>, NoConfigOut)
    ELSE TextCall("GetFlags", FALSE, "S_OK", "ECF_DEFAULT", <<>>, NoConfigOut)

\* ExplorerCommand::EnumSubCommands(ppEnum)
EnumSubCommandsCall(ppEnumIsNull) ==
    IF ppEnumIsNull
    THEN TextCall("EnumSubCommands", TRUE, "E_POINTER", "unwritten", <<>>, NoConfigOut)
    ELSE TextCall("EnumSubCommands", FALSE, "E_NOTIMPL", "nullptr", <<>>, NoConfigOut)

CmdInit ==
    /\ sel \in HostSelections
    /\ hklm \in RegKeys
    /\ hkcu \in RegKeys
    /\ last = NoCall

\* The host calls GetState(psiItemArray, fOkToBeSlow, pCmdState)
GetState(fOkToBeSlow, pCmdStateIsNull) ==
    /\ last' = GetStateCall(sel, fOkToBeSlow, pCmdStateIsNull)
    /\ UNCHANGED <<sel, hklm, hkcu, refVars, valVars, envVars, facVars>>

\* The host calls Invoke(psiItemArray, pbc)
Invoke(createOk) ==
    /\ last' = InvokeCall(sel, createOk)
    /\ resolved' = Remember(last'.config)
    /\ UNCHANGED <<sel, hklm, hkcu, hInstance, refVars, valVars, facVars>>

\* An installer, repair or uninstall rewrites one scope of the
\* configuration between two host calls.
WriteConfig(scope, key) ==
    /\ IF scope = "HKLM"
       THEN hklm' = key /\ hklm # key /\ UNCHANGED hkcu
       ELSE hkcu' = key /\ hkcu # key /\ UNCHANGED hklm
    /\ last' = NoCall
    /\ UNCHANGED <<sel, refVars, valVars, envVars, facVars>>

Next ==
    \/ \E f \in BOOLEAN, n \in BOOLEAN : GetState(f, n)
    \/ \E ok \in BOOLEAN : Invoke(ok)
    \/ \E scope \in {"HKLM", "HKCU"}, key \in RegKeys : WriteConfig(scope, key)

-----------------------------------------------------------------------------
(* SpecConfig: GetState, GetIcon and Invoke on a few selections while an   *)
(* installer rewrites the registry between the calls.                      *)

\* The host calls GetIcon(psiItemArray, ppszIcon)
GetIcon(ppszIconIsNull, allocOk) ==
    /\ last' = GetIconCall(ppszIconIsNull, allocOk)
    /\ resolved' = Remember(last'.config)
    /\ UNCHANGED <<sel, hklm, hkcu, hInstance, refVars, valVars, facVars>>

\* no selection, a drive root, a lower-case drive root, a folder
ConfigSelections ==
    { NullSel,
      SelOf(NamedItem(ScenarioDrive), <<>>),
      SelOf(NamedItem(<<99, COLON>>), <<SecondFolder>>),
      SelOf(NamedItem(ScenarioFolder), <<>>) }

ConfigInit ==
    /\ sel \in ConfigSelections
    /\ hklm \in RegKeys
    /\ hkcu \in RegKeys
    /\ last = NoCall
    /\ hInstance \in ModuleStates
    /\ resolved = <<>>

ConfigNext ==
    \/ \E f \in BOOLEAN, n \in BOOLEAN : GetState(f, n)
    \/ \E n \in BOOLEAN, ok \in BOOLEAN : GetIcon(n, ok)
    \/ \E ok \in BOOLEAN : Invoke(ok)
    \/ \E scope \in {"HKLM", "HKCU"}, key \in RegKeys : WriteConfig(scope, key)

-----------------------------------------------------------------------------
(* The class factory and the DLL exports (dllmain.cpp) *)

FacCall(op, flag, outerIsNull, riid, ppvIsNull, hr, ppv, ctors, dtors, refCount) ==
    [op |-> op, flag |-> flag, outerIsNull |-> outerIsNull, riid |-> riid,
     ppvIsNull |-> ppvIsNull, hr |-> hr, ppv |-> ppv,
     constructions |-> ctors, destructions |-> dtors,
     refCount |-> refCount]

NoFacCall == FacCall("none", FALSE, TRUE, "-", FALSE, "-", "-", 0, 0, 0)

\* CreateInstance that refuses aggregation only for interfaces other than
\* IUnknown
CreateInstanceAggregatesUnknown(pUnkOuterIsNull, riid, ppvIsNull, allocOk) ==
    IF ppvIsNull
    THEN FacCall("CreateInstance", FALSE, pUnkOuterIsNull, riid, TRUE,
                 "E_POINTER", "unwritten", 0, 0, 0)
    ELSE IF ~pUnkOuterIsNull /\ riid # "IID_IUnknown"
    THEN FacCall("CreateInstance", FALSE, FALSE, riid, FALSE,
                 "CLASS_E_NOAGGREGATION", "nullptr", 0, 0, 0)
    ELSE IF ~allocOk
    THEN FacCall("CreateInstance", FALSE, pUnkOuterIsNull, riid, FALSE,
                 "E_OUTOFMEMORY", "nullptr", 0, 0, 0)
    ELSE LET supports == QueryInterfaceSupports(riid)
             afterQuery == IF supports
                           THEN InterlockedIncrement(InitialRefCount)
                           ELSE InitialRefCount
             refCount == InterlockedDecrement(afterQuery)
         IN  FacCall("CreateInstance", FALSE, pUnkOuterIsNull, riid, FALSE,
                     IF supports THEN "S_OK" ELSE "E_NOINTERFACE",
                     IF supports THEN "this" ELSE "nullptr",
                     1, IF refCount = 0 THEN 1 ELSE 0, refCount)

\* CreateInstance that does not drop the constructor's reference after
\* QueryInterface
CreateInstanceKeepsReference(pUnkOuterIsNull, riid, ppvIsNull, allocOk) ==
    IF ppvIsNull
    THEN FacCall("CreateInstance", FALSE, pUnkOuterIsNull, riid, TRUE,
                 "E_POINTER", "unwritten", 0, 0, 0)
    ELSE IF ~pUnkOuterIsNull
    THEN FacCall("CreateInstance", FALSE, FALSE, riid, FALSE,
                 "CLASS_E_NOAGGREGATION", "nullptr", 0, 0, 0)
    ELSE IF ~allocOk
    THEN FacCall("CreateInstance", FALSE, TRUE, riid, FALSE,
                 "E_OUTOFMEMORY", "nullptr", 0, 0, 0)
    ELSE LET supports == QueryInterfaceSupports(riid)
             refCount == IF supports
                         THEN InterlockedIncrement(InitialRefCount)
                         ELSE InitialRefCount
         IN  FacCall("CreateInstance", FALSE, TRUE, riid, FALSE,
                     IF supports THEN "S_OK" ELSE "E_NOINTERFACE",
                     IF supports THEN "this" ELSE "nullptr",
                     1, 0, refCount)

\* ClassFactory::CreateInstance(pUnkOuter, riid, ppv): construct, hand the
\* object to QueryInterface, drop the constructor's reference.  allocOk is
\* whether new (std::nothrow) returns an object.
CreateInstanceCall(pUnkOuterIsNull, riid, ppvIsNull, allocOk) ==
    IF ppvIsNull
    THEN FacCall("CreateInstance", FALSE, pUnkOuterIsNull, riid, TRUE,
                 "E_POINTER", "unwritten", 0, 0, 0)
    ELSE IF ~pUnkOuterIsNull
    THEN FacCall("CreateInstance", FALSE, FALSE, riid, FALSE,
                 "CLASS_E_NOAGGREGATION", "nullptr", 0, 0, 0)
    ELSE IF ~allocOk
    THEN FacCall("CreateInstance", FALSE, TRUE, riid, FALSE,
                 "E_OUTOFMEMORY", "nullptr", 0, 0, 0)
    ELSE LET supports == QueryInterfaceSupports(riid)
             afterQuery == IF supports
                           THEN InterlockedIncrement(InitialRefCount)
                           ELSE InitialRefCount
             refCount == InterlockedDecrement(afterQuery)
         IN  FacCall("CreateInstance", FALSE, TRUE, riid, FALSE,
                     IF supports THEN "S_OK" ELSE "E_NOINTERFACE",
                     IF supports THEN "this" ELSE "nullptr",
                     1, IF refCount = 0 THEN 1 ELSE 0, refCount)

\* the host owns no reference and no Release is in progress
NoInstanceHeld ==
    \A t \in Threads : held[t] = 0 /\ pc[t] = "idle"

\* The host calls CreateInstance; an instance it hands out becomes the
\* instance of the reference-count variables, owned by thread 1.
CreateInstance(pUnkOuterIsNull, riid, ppvIsNull, allocOk) ==
    LET r == CreateInstanceCall(pUnkOuterIsNull, riid, ppvIsNull, allocOk)
    IN  /\ constructed + r.constructions <= MaxInstances
        /\ lastFac' = r
        /\ constructed' = constructed + r.constructions
        /\ IF r.ppv = "this"
           THEN /\ NoInstanceHeld
                /\ m_refCount' = r.refCount
                /\ alive' = TRUE
                /\ destroyed' = 0
                /\ touched' = FALSE
                /\ held' = [t \in Threads |-> IF t = 1 THEN 1 ELSE 0]
                /\ pc' = [t \in Threads |-> "idle"]
                /\ refLocal' = [t \in Threads |-> [before |-> 0, refCount |-> 0]]
                /\ destroyer' = 0
                /\ nAddRef' = 1
                /\ nRelease' = 1
                /\ lastRef' = NoRefCall
           ELSE UNCHANGED refVars
        /\ UNCHANGED <<serverLocks, valVars, cmdVars, envVars>>

\* ClassFactory::LockServer(fLock): return S_OK; the parameter is unused
LockServerCall(fLock) ==
    FacCall("LockServer", fLock, TRUE, "-", FALSE, "S_OK", "-", 0, 0, 0)

\* The host calls LockServer(TRUE), or LockServer(FALSE) to undo one
LockServer(fLock) ==
    /\ IF fLock THEN serverLocks < MaxLocks ELSE serverLocks > 0
    /\ serverLocks' = IF fLock THEN serverLocks + 1 ELSE serverLocks - 1
    /\ lastFac' = LockServerCall(fLock)
    /\ UNCHANGED <<constructed, refVars, valVars, cmdVars, envVars>>

\* DllCanUnloadNow that answers S_FALSE while an object or a lock is
\* outstanding
DllCanUnloadNowCounted ==
    FacCall("DllCanUnloadNow", FALSE, TRUE, "-", FALSE,
            IF alive \/ serverLocks > 0 THEN "S_FALSE" ELSE "S_OK", "-", 0, 0, 0)

\* STDAPI DllCanUnloadNow(): return S_OK;
DllCanUnloadNowCall ==
    FacCall("DllCanUnloadNow", FALSE, TRUE, "-", FALSE, "S_OK", "-", 0, 0, 0)

\* The host calls DllCanUnloadNow
DllCanUnloadNow ==
    /\ lastFac' = DllCanUnloadNowCall
    /\ UNCHANGED <<constructed, serverLocks, refVars, valVars, cmdVars, envVars>>

-----------------------------------------------------------------------------
(* SpecServer: the host creates instances through the factory, takes and   *)
(* drops references, locks the server and asks whether the DLL can unload. *)
(* SpecMethods: the host creates an instance and calls every method of it, *)
(* with and without output locations.                                      *)

\* The host calls GetTitle(psiItemArray, ppszName)
GetTitle(ppszNameIsNull, allocOk) ==
    /\ last' = GetTitleCall(ppszNameIsNull, allocOk)
    /\ UNCHANGED <<sel, hklm, hkcu, refVars, valVars, envVars, facVars>>

\* The host calls GetToolTip(psiItemArray, ppszInfotip)
GetToolTip(ppszInfotipIsNull, allocOk) ==
    /\ last' = GetToolTipCall(ppszInfotipIsNull, allocOk)
    /\ UNCHANGED <<sel, hklm, hkcu, refVars, valVars, envVars, facVars>>

\* The host calls GetCanonicalName(pguidCommandName)
GetCanonicalName(pguidCommandNameIsNull) ==
    /\ last' = GetCanonicalNameCall(pguidCommandNameIsNull)
    /\ UNCHANGED <<sel, hklm, hkcu, refVars, valVars, envVars, facVars>>

\* The host calls GetFlags(pFlags)
GetFlags(pFlagsIsNull) ==
    /\ last' = GetFlagsCall(pFlagsIsNull)
    /\ UNCHANGED <<sel, hklm, hkcu, refVars, valVars, envVars, facVars>>

\* The host calls EnumSubCommands(ppEnum)
EnumSubCommands(ppEnumIsNull) ==
    /\ last' = EnumSubCommandsCall(ppEnumIsNull)
    /\ UNCHANGED <<sel, hklm, hkcu, refVars, valVars, envVars, facVars>>

\* thread 1, the host, owns a reference and is not inside Release
HostHolds == held[1] > 0 /\ pc[1] = "idle"

ServerInit ==
    /\ m_refCount = 0 /\ alive = FALSE /\ destroyed = 0 /\ touched = FALSE
    /\ held = [t \in Threads |-> 0]
    /\ pc = [t \in Threads |-> "idle"]
    /\ refLocal = [t \in Threads |-> [before |-> 0, refCount |-> 0]]
    /\ destroyer = 0 /\ nAddRef = 0 /\ nRelease = 0
    /\ lastRef = NoRefCall
    /\ constructed = 0 /\ lastFac = NoFacCall /\ serverLocks = 0
    /\ sel \in {NullSel, SelOf(NamedItem(ScenarioDrive), <<>>)}
    /\ hklm = KeyWith(ToolA) /\ hkcu = KeyAbsent
    /\ last = NoCall
    /\ hInstance = Module(FALSE, TRUE, DllShort)
    /\ resolved = <<>>

ServerNext ==
    \/ \E o \in BOOLEAN, riid \in IIDs, n \in BOOLEAN, ok \in BOOLEAN :
          CreateInstance(o, riid, n, ok)
    \/ \E fLock \in BOOLEAN : LockServer(fLock)
    \/ DllCanUnloadNow
    \/ \E riid \in IIDs, n \in BOOLEAN : QueryInterface(1, 1, riid, n)
    \/ ReleaseDecrement(1)
    \/ ReleaseFinish(1)

MethodsNext ==
    \/ \E o \in BOOLEAN, riid \in IIDs, n \in BOOLEAN, ok \in BOOLEAN :
          CreateInstance(o, riid, n, ok)
    \/ \E riid \in IIDs, n \in BOOLEAN : QueryInterface(1, 1, riid, n)
    \/ \E n \in BOOLEAN, ok \in BOOLEAN : HostHolds /\ GetTitle(n, ok)
    \/ \E n \in BOOLEAN, ok \in BOOLEAN : HostHolds /\ GetIcon(n, ok)
    \/ \E n \in BOOLEAN, ok \in BOOLEAN : HostHolds /\ GetToolTip(n, ok)
    \/ \E n \in BOOLEAN : HostHolds /\ GetCanonicalName(n)
    \/ \E n \in BOOLEAN : HostHolds /\ GetState(TRUE, n)
    \/ \E ok \in BOOLEAN : HostHolds /\ Invoke(ok)
    \/ \E n \in BOOLEAN : HostHolds /\ GetFlags(n)
    \/ \E n \in BOOLEAN : HostHolds /\ EnumSubCommands(n)

-----------------------------------------------------------------------------
(* SpecValidator: GetSelectedDrivePath applied to every selection of the   *)
(* bounded set, with the zero-initialised MAX_PATH buffer its callers      *)
(* pass.                                                                   *)

ValInit ==
    /\ vsel \in ValidatorSelections
    /\ vres = NoValidatorOut
    /\ vresNested = NoValidatorOut

Validate ==
    /\ vres = NoValidatorOut
    /\ vres' = GetSelectedDrivePath(vsel, <<>>, MAX_PATH)
    /\ UNCHANGED <<vsel, vresNested, refVars, cmdVars, envVars, facVars>>

\* The same call on the copy of the class in
\* src/DiskBench/DiskBench.ShellExtension.Cpp
ValidateNested ==
    /\ vresNested = NoValidatorOut
    /\ vresNested' = GetSelectedDrivePathNested(vsel, <<>>, MAX_PATH)
    /\ UNCHANGED <<vsel, vres, refVars, cmdVars, envVars, facVars>>

ValNext == Validate \/ ValidateNested

-----------------------------------------------------------------------------
(* Idle values of the variables a specification does not use *)

RefIdle ==
    /\ m_refCount = InitialRefCount /\ alive = TRUE /\ destroyed = 0
    /\ touched = FALSE
    /\ held = [t \in Threads |-> 0]
    /\ pc = [t \in Threads |-> "idle"]
    /\ refLocal = [t \in Threads |-> [before |-> 0, refCount |-> 0]]
    /\ destroyer = 0 /\ nAddRef = 0 /\ nRelease = 0
    /\ lastRef = NoRefCall

ValIdle == vsel = NullSel /\ vres = NoValidatorOut /\ vresNested = NoValidatorOut

CmdIdle == sel = NullSel /\ hklm = KeyAbsent /\ hkcu = KeyAbsent /\ last = NoCall

EnvIdle == hInstance = Module(FALSE, TRUE, DllShort) /\ resolved = <<>>

FacIdle == constructed = 0 /\ lastFac = NoFacCall /\ serverLocks = 0

InitRef == RefInit /\ ValIdle /\ CmdIdle /\ EnvIdle /\ FacIdle

SpecRef == InitRef /\ [][RefNext]_vars

InitValidator == ValInit /\ RefIdle /\ CmdIdle /\ EnvIdle /\ FacIdle

SpecValidator == InitValidator /\ [][ValNext]_vars

Init == CmdInit /\ RefIdle /\ ValIdle /\ EnvIdle /\ FacIdle

Spec == Init /\ [][Next]_vars

InitConfig == ConfigInit /\ RefIdle /\ ValIdle /\ FacIdle

SpecConfig == InitConfig /\ [][ConfigNext]_vars

InitServer == ServerInit /\ ValIdle

SpecServer == InitServer /\ [][ServerNext]_vars

InitMethods == ServerInit /\ ValIdle

SpecMethods == InitMethods /\ [][MethodsNext]_vars


-----------------------------------------------------------------------------
(* Claims about the reference count (SpecRef) *)

\* C1: the count is 1 right after construction; AddRef returns the count
\* after incrementing and Release the count after decrementing; with N
\* AddRef and N+1 Release calls the instance is destroyed exactly once, by
\* the Release that returns 0, and never while fewer Releases than
\* AddRefs + 1 have happened.
C1_RefCountLifecycle ==
    /\ (nAddRef = 0 /\ nRelease = 0) => m_refCount = 1
    /\ lastRef.op = "AddRef" =>
          lastRef.after = lastRef.before + 1 /\ lastRef.ret = lastRef.after
    /\ lastRef.op = "Release" =>
          lastRef.after = lastRef.before - 1 /\ lastRef.ret = lastRef.after
    /\ m_refCount = 1 + nAddRef - nRelease
    /\ destroyed <= 1
    /\ nRelease <= nAddRef => destroyed = 0
    /\ (nRelease = nAddRef + 1 /\ \A t \in Threads : pc[t] = "idle") => destroyed = 1
    /\ (lastRef.op = "Release" /\ lastRef.ret = 0) =>
          destroyed = 1 /\ destroyer = lastRef.t
    /\ (lastRef.op = "Release" /\ lastRef.ret > 0 /\ nRelease <= nAddRef) =>
          destroyed = 0

\* C1 witness: two AddRefs and three Releases have run and the last Release
\* returned 0 and destroyed the instance.
C1_Witness ==
    /\ nAddRef = 2 /\ nRelease = 3
    /\ lastRef.op = "Release" /\ lastRef.ret = 0
    /\ destroyed = 1

\* C2: under every interleaving of the atomic steps of AddRef and Release
\* by threads that release only references they hold, the instance is
\* destroyed at most once, by the thread whose decrement observed zero;
\* it is destroyed once all references are released; and no step touches
\* the count after the destruction.
C2_ConcurrentDestroyOnce ==
    /\ destroyed <= 1
    /\ alive <=> destroyed = 0
    /\ ~touched
    /\ destroyed = 1 =>
          /\ destroyer \in Threads
          /\ refLocal[destroyer].before = 1 /\ refLocal[destroyer].refCount = 0
          /\ \A u \in Threads \ {destroyer} :
                ~(refLocal[u].before = 1 /\ refLocal[u].refCount = 0)
    /\ (\A t \in Threads : held[t] = 0 /\ pc[t] = "idle") => destroyed = 1
    /\ destroyed = 0 =>
          \/ \E t \in Threads : held[t] > 0
          \/ \E t \in Threads : pc[t] = "released" /\ refLocal[t].refCount = 0

\* C2 witness: thread 2 destroyed the instance while thread 1 was still
\* inside its own Release, between the decrement and the return.
C2_Witness ==
    /\ destroyed = 1 /\ destroyer = 2
    /\ pc[1] = "released" /\ refLocal[1].refCount = 1

\* C3: QueryInterface with a non-null output returns S_OK, writes the
\* object and adds exactly one reference for IID_IUnknown and
\* IID_IExplorerCommand; for every other id it returns E_NOINTERFACE,
\* writes nullptr and leaves the count unchanged.
C3_QueryInterface ==
    (lastRef.op = "QueryInterface" /\ ~lastRef.ppvIsNull) =>
        IF lastRef.riid \in {"IID_IUnknown", "IID_IExplorerCommand"}
        THEN /\ lastRef.hr = "S_OK"
             /\ lastRef.ppv = "this"
             /\ lastRef.after = lastRef.before + 1
        ELSE /\ lastRef.hr = "E_NOINTERFACE"
             /\ lastRef.ppv = "nullptr"
             /\ lastRef.after = lastRef.before

\* C3 witness: a QueryInterface for IID_IExplorerCommand took the count
\* from 1 to 2.
C3_Witness ==
    /\ lastRef.op = "QueryInterface" /\ lastRef.riid = "IID_IExplorerCommand"
    /\ lastRef.hr = "S_OK" /\ lastRef.before = 1 /\ m_refCount = 2

-----------------------------------------------------------------------------
(* Claims about the SelectionValidator (SpecValidator) *)

\* the validator ran on a selection whose first item has a display path
ValidatedFirstPath ==
    /\ vres.hr # "not called"
    /\ ~vsel.isNull
    /\ Succeeded(vsel.countHr) /\ Len(vsel.items) > 0
    /\ Succeeded(vsel.itemHr)
    /\ Succeeded(vsel.items[1].nameHr) /\ vsel.items[1].hasName

\* C4: for a selection whose first item has the display path p, the
\* validator accepts iff p[2] is ':' and p has 2 characters, or 3 with the
\* third '\' or '/'; on acceptance the token is uppercase(p[1]) ':' '\'.
C4_ValidatorAcceptance ==
    ValidatedFirstPath =>
        LET p == vsel.items[1].name
            shape == /\ Len(p) >= 2
                     /\ p[2] = 58
                     /\ (Len(p) = 2 \/ (Len(p) = 3 /\ p[3] \in {92, 47}))
            accepted == vres.hr = "S_OK" /\ vres.pszPath # <<>>
        IN  /\ accepted <=> shape
            /\ accepted =>
                 vres.pszPath =
                    <<(IF p[1] \in 97..122 THEN p[1] - 32 ELSE p[1]), 58, 92>>
            /\ ~accepted => vres.hr = "S_FALSE" /\ vres.pszPath = <<>>

\* C4 witness: the first item's path "c:/" was accepted with token "C:\".
C4_Witness ==
    /\ ValidatedFirstPath
    /\ vsel.items[1].name = <<99, 58, 47>>
    /\ vres.hr = "S_OK" /\ vres.pszPath = <<67, 58, 92>>

\* C5: every first-item path that is longer than 3 characters, or whose
\* first two characters are not a letter followed by ':', is rejected
\* with S_FALSE and an empty token.
C5_RejectsNonLetterDrives ==
    ValidatedFirstPath =>
        LET p == vsel.items[1].name
            letterColon == /\ Len(p) >= 2
                           /\ (p[1] \in 65..90 \/ p[1] \in 97..122)
                           /\ p[2] = 58
        IN  (Len(p) > 3 \/ ~letterColon) =>
                vres.hr = "S_FALSE" /\ vres.pszPath = <<>>


-----------------------------------------------------------------------------
(* Claims about GetState and Invoke (Spec) *)

\* the current selection's first item has a display path of the drive-root
\* shape: "X:", "X:\" or "X:/"
SelIsDriveRoot ==
    /\ ~sel.isNull
    /\ Succeeded(sel.countHr) /\ Len(sel.items) > 0
    /\ Succeeded(sel.itemHr)
    /\ Succeeded(sel.items[1].nameHr) /\ sel.items[1].hasName
    /\ LET p == sel.items[1].name
       IN  /\ Len(p) >= 2
           /\ p[2] = 58
           /\ (Len(p) = 2 \/ (Len(p) = 3 /\ p[3] \in {92, 47}))

\* the tool path cannot be resolved: no key in either scope, or the key
\* that is consulted has no "ExePath" entry that fits the buffer
ConfigUnresolvable ==
    LET readable(k) == k.hasExePath /\ Len(k.data) < 260
    IN  \/ ~hklm.present /\ ~hkcu.present
        \/ hklm.present /\ ~readable(hklm)
        \/ ~hklm.present /\ hkcu.present /\ ~readable(hkcu)

\* C6: given a state output location, GetState emits ENABLED iff the
\* selection handle is non-null and the validator yields a non-empty
\* token for it, and HIDDEN in every other case.
C6_GetStateVisibility ==
    (last.op = "GetState" /\ ~last.outNull) =>
        /\ last.out = "ECS_ENABLED" <=> SelIsDriveRoot
        /\ last.out = "ECS_ENABLED" <=>
              (~sel.isNull /\ last.validator.hr = "S_OK"
                 /\ last.validator.pszPath # <<>>)
        /\ last.out # "ECS_ENABLED" => last.out = "ECS_HIDDEN"

\* C6 witness: GetState on the selection "c:\" emitted ENABLED.
C6_Witness ==
    /\ last.op = "GetState" /\ ~last.outNull
    /\ sel.items = <<NamedItem(<<99, 58, 92>>)>>
    /\ last.out = "ECS_ENABLED"

\* C7: for every selection and every value of the ok-to-be-slow flag,
\* GetState returns a success code and has written ENABLED or HIDDEN,
\* HIDDEN when an internal step failed; the flag does not change the result.
C7_GetStateNeverFails ==
    (last.op = "GetState" /\ ~last.outNull) =>
        /\ last.hr = "S_OK"
        /\ last.out \in {"ECS_ENABLED", "ECS_HIDDEN"}
        /\ (sel.isNull \/ Failed(sel.countHr) \/ Failed(sel.itemHr)
              \/ Len(sel.items) = 0) => last.out = "ECS_HIDDEN"
        /\ LET other == GetStateCall(sel, ~last.flag, FALSE)
           IN  other.hr = last.hr /\ other.out = last.out

\* C7 witness: GetState, told it may be slow, on a selection whose first
\* item cannot be retrieved, returned S_OK with HIDDEN.
C7_Witness ==
    /\ last.op = "GetState" /\ ~last.outNull /\ last.flag
    /\ ~sel.isNull /\ Len(sel.items) > 0 /\ Failed(sel.itemHr)
    /\ last.validator.hr = "E_FAIL"
    /\ last.hr = "S_OK" /\ last.out = "ECS_HIDDEN"

\* C8: on a drive-root selection with an unresolvable tool path, Invoke
\* returns E_FAIL and starts no process, and GetState emits ENABLED.
C8_InvokeNotConfigured ==
    (SelIsDriveRoot /\ ConfigUnresolvable) =>
        /\ last.op = "Invoke" =>
              /\ last.hr = "E_FAIL"
              /\ ~last.launch.attempted /\ ~last.launch.started
        /\ (last.op = "GetState" /\ ~last.outNull) =>
              last.out = "ECS_ENABLED"

\* C8 witness: Invoke on "D:\" with no configuration key in either scope
\* returned E_FAIL.
C8_Witness ==
    /\ last.op = "Invoke"
    /\ sel.items = <<NamedItem(<<68, 58, 92>>)>>
    /\ ~hklm.present /\ ~hkcu.present
    /\ last.hr = "E_FAIL" /\ ~last.launch.attempted

\* C9: Invoke validates the selection before it resolves the
\* configuration, and resolves the configuration before it launches; on
\* a non-null selection that yields no token it returns S_FALSE, reads no
\* configuration and starts no process, whatever the configuration is.
C9_InvokeStepOrder ==
    last.op = "Invoke" =>
        /\ (~sel.isNull /\ ~SelIsDriveRoot) =>
              /\ last.hr = "S_FALSE"
              /\ last.config.hr = "not called" /\ last.config.opens = <<>>
              /\ ~last.launch.attempted
        /\ last.config.hr # "not called" =>
              (last.validator.hr = "S_OK" /\ last.validator.pszPath # <<>>)
        /\ last.launch.attempted => last.config.hr = "S_OK"

\* C9 witness: Invoke on the folder "D:\Projects", with a tool path
\* configured, returned S_FALSE without reading the configuration.
C9_Witness ==
    /\ last.op = "Invoke"
    /\ sel.items = <<NamedItem(<<68, 58, 92, 80, 114, 111, 106, 101, 99, 116, 115>>)>>
    /\ hklm.present /\ hklm.hasExePath
    /\ last.hr = "S_FALSE" /\ last.config.opens = <<>>

\* C10: whenever Invoke launches, the application is the resolved tool
\* path T and the command line is exactly "T" --quick "D" for the drive
\* token D: nothing truncated, nothing added; and it launches for every
\* drive-root selection whose tool path resolves.
C10_CommandLine ==
    last.op = "Invoke" =>
        /\ last.launch.attempted =>
              LET T == IF hklm.present THEN hklm.data ELSE hkcu.data
                  D == last.validator.pszPath
              IN  /\ last.config.pszExePath = T
                  /\ Len(D) = 3
                  /\ last.launch.app = T
                  /\ last.launch.cmdLine =
                        <<34>> \o T \o <<34, 32, 45, 45, 113, 117, 105, 99, 107, 32, 34>>
                               \o D \o <<34>>
        /\ (SelIsDriveRoot /\ ~ConfigUnresolvable) => last.launch.attempted

\* C10 witness: Invoke launched a tool whose path fills the MAX_PATH
\* buffer (259 characters).
C10_Witness ==
    /\ last.op = "Invoke" /\ last.launch.attempted /\ last.launch.started
    /\ Len(last.launch.app) = 259
    /\ Len(last.launch.cmdLine) = 259 + 16

-----------------------------------------------------------------------------
(* Claims about what Invoke launches (Spec) *)

\* The drive argument of a launched command line: the three code units
\* between the last pair of quotes.
LaunchedDriveArg ==
    LET c == last.launch.cmdLine
    IN  IF Len(c) >= 5 THEN SubSeq(c, Len(c) - 3, Len(c) - 1) ELSE <<>>

\* C11: every process Invoke launches receives a drive argument that is
\* exactly <Letter>:\ with an uppercase letter A-Z: never a lower-case
\* letter, a non-letter first character, a missing separator or a longer
\* path.
C11_LaunchDriveArgument ==
    (last.op = "Invoke" /\ last.launch.attempted) =>
        LET c == last.launch.cmdLine
            D == LaunchedDriveArg
        IN  /\ Len(c) >= 5
            /\ c[Len(c)] = 34 /\ c[Len(c) - 4] = 34
            /\ D[1] \in 65..90
            /\ D[2] = 58
            /\ D[3] = 92
            /\ D = last.validator.pszPath

-----------------------------------------------------------------------------
(* Claims about the ConfigResolver and GetIcon (SpecConfig) *)

\* the last call read the configuration: GetIcon with an output location,
\* or Invoke on a selection the validator accepted
ConfigWasRead == last.config.hr # "not called"

\* the key holds an ExePath entry that fits the MAX_PATH buffer
EntryUsable(k) == k.present /\ k.hasExePath /\ Len(k.data) < 260

\* C12: the resolver opens the machine-wide scope first and the per-user
\* scope only when that open fails; with HKLM absent and an entry in HKCU
\* the per-user value is used, with both keys openable the machine-wide
\* value is the one used, and with neither resolution fails.
C12_ScopeOrder ==
    ConfigWasRead =>
        LET c == last.config
        IN  /\ Len(c.opens) \in {1, 2}
            /\ c.opens[1] = "HKLM"
            /\ Len(c.opens) = 2 <=> ~hklm.present
            /\ Len(c.opens) = 2 => c.opens[2] = "HKCU"
            /\ (~hklm.present /\ EntryUsable(hkcu)) =>
                  (c.hr = "S_OK" /\ c.pszExePath = hkcu.data)
            /\ (hklm.present /\ hkcu.present) =>
                  /\ EntryUsable(hklm) => c.hr = "S_OK"
                  /\ c.hr = "S_OK" => c.pszExePath = hklm.data
            /\ (~hklm.present /\ ~hkcu.present) =>
                  (c.hr = "E_FAIL" /\ c.opened = 0 /\ c.pszExePath = <<>>)

\* C12 witness: both scopes hold different tool paths and Invoke launched
\* the machine-wide one.
C12_Witness ==
    /\ last.op = "Invoke" /\ last.launch.started
    /\ EntryUsable(hklm) /\ EntryUsable(hkcu) /\ hklm.data # hkcu.data
    /\ last.launch.app = hklm.data
    /\ last.config.opens = <<"HKLM">>

\* the module path GetIcon can fall back to
ModulePathObtainable ==
    /\ ~hInstance.isNull /\ hInstance.readable
    /\ Len(hInstance.path) > 0 /\ Len(hInstance.path) < 260

\* C13: GetIcon with an output location, unless the allocation of the
\* output string fails, answers for any selection: S_OK with
\* "<tool path>,0" if the tool path resolves; else S_OK with
\* "<module path>,0" if the module path is obtainable; else S_FALSE with a
\* null output.  The tool path wins when both are available.
C13_GetIconThreeWay ==
    (last.op = "GetIcon" /\ ~last.outNull) =>
        LET source == IF ~ConfigUnresolvable
                      THEN <<IF hklm.present THEN hklm.data ELSE hkcu.data>>
                      ELSE IF ModulePathObtainable THEN <<hInstance.path>>
                      ELSE <<>>
        IN  /\ last.hr \in {"S_OK", "S_FALSE", "E_OUTOFMEMORY"}
            /\ last.hr = "E_OUTOFMEMORY" => (source # <<>> /\ last.out = "nullptr")
            /\ last.hr # "E_OUTOFMEMORY" =>
                  IF source # <<>>
                  THEN /\ last.hr = "S_OK" /\ last.out = "string"
                       /\ last.text = source[1] \o <<44, 48>>
                  ELSE /\ last.hr = "S_FALSE" /\ last.out = "nullptr"
                       /\ last.text = <<>>

\* C13 witness: the tool path and the module path were both available and
\* GetIcon, called with no selection, answered with the tool path.
C13_Witness ==
    /\ last.op = "GetIcon" /\ last.hr = "S_OK"
    /\ sel.isNull
    /\ ~ConfigUnresolvable /\ ModulePathObtainable
    /\ last.text = <<116, 32, 116, 44, 48>>

-----------------------------------------------------------------------------
(* Claims about the outcomes of Invoke (Spec) *)

\* the step at which the last Invoke ended
InvokeEndedAt ==
    IF sel.isNull THEN "invalid argument"
    ELSE IF ~SelIsDriveRoot THEN "not handled"
    ELSE IF ConfigUnresolvable THEN "not configured"
    ELSE IF ~last.launch.started THEN "launch failure"
    ELSE "success"

\* C14: the five terminal outcomes of Invoke have five different codes, so
\* the code names the step: E_POINTER, S_FALSE, E_FAIL for "not
\* configured", S_OK, and a fifth value for a failed launch.
C14_FiveDistinctCodes ==
    last.op = "Invoke" =>
        /\ InvokeEndedAt = "invalid argument" <=> last.hr = "E_POINTER"
        /\ InvokeEndedAt = "not handled" <=> last.hr = "S_FALSE"
        /\ InvokeEndedAt = "not configured" <=> last.hr = "E_FAIL"
        /\ InvokeEndedAt = "success" <=> last.hr = "S_OK"
        /\ InvokeEndedAt = "launch failure" =>
              last.hr \notin {"E_POINTER", "S_FALSE", "E_FAIL", "S_OK"}

\* C18: an Invoke calls CreateProcess at most once, and only after the
\* validator and the resolver both succeeded in that call; a started
\* process has its process handle and its thread handle closed exactly
\* once each and Invoke returns S_OK without waiting; a failed start
\* returns E_FAIL with no second attempt and no handle open.
C18_FireAndForget ==
    last.op = "Invoke" =>
        LET l == last.launch
        IN  /\ l.attempts \in {0, 1}
            /\ l.attempted <=> l.attempts = 1
            /\ l.attempted =>
                  /\ last.validator.hr = "S_OK" /\ Len(last.validator.pszPath) > 0
                  /\ last.config.hr = "S_OK"
                  /\ SelIsDriveRoot /\ ~ConfigUnresolvable
            /\ l.started =>
                  /\ l.attempted
                  /\ l.closedProcess = 1 /\ l.closedThread = 1
                  /\ last.hr = "S_OK"
            /\ ~l.waited
            /\ (l.attempted /\ ~l.started) =>
                  /\ last.hr = "E_FAIL"
                  /\ l.closedProcess = 0 /\ l.closedThread = 0
            /\ ~l.attempted =>
                  (~l.started /\ l.closedProcess = 0 /\ l.closedThread = 0)

\* C18 witness: CreateProcess failed once and Invoke returned E_FAIL.
C18_Witness ==
    /\ last.op = "Invoke" /\ last.hr = "E_FAIL"
    /\ last.launch.attempts = 1 /\ ~last.launch.started
    /\ last.launch.closedProcess = 0 /\ last.launch.closedThread = 0
    /\ Len(last.launch.cmdLine) > 0

-----------------------------------------------------------------------------
(* Claims about freshness and entry failures of the ConfigResolver         *)
(* (SpecConfig)                                                            *)

\* the tool path the registry holds now: the entry of the machine-wide key
\* if that key exists, else the entry of the per-user key
CurrentToolPath == IF hklm.present THEN hklm.data ELSE hkcu.data

\* C19: whatever earlier calls resolved and however the registry was
\* rewritten since, the outcome of a GetState, GetIcon or Invoke call is
\* determined by its selection and the registry as it is at the call:
\* GetState by the selection alone; Invoke launches the tool path the
\* registry holds now, or ends "not configured" if it holds none now;
\* GetIcon names the tool path the registry holds now, or falls back.
C19_NoCaching ==
    /\ (last.op = "GetState" /\ ~last.outNull) =>
          /\ last.config.hr = "not called"
          /\ last.out = IF SelIsDriveRoot THEN "ECS_ENABLED" ELSE "ECS_HIDDEN"
    /\ (last.op = "Invoke" /\ SelIsDriveRoot) =>
          IF ConfigUnresolvable
          THEN last.hr = "E_FAIL" /\ ~last.launch.attempted
          ELSE /\ last.launch.attempted
               /\ last.launch.app = CurrentToolPath
               /\ last.config.opens # <<>>
    /\ (last.op = "Invoke" /\ ~SelIsDriveRoot) =>
          (~last.launch.attempted /\ last.hr \in {"E_POINTER", "S_FALSE"})
    /\ (last.op = "GetIcon" /\ last.hr = "S_OK") =>
          /\ last.config.opens # <<>>
          /\ last.text = (IF ConfigUnresolvable THEN hInstance.path
                          ELSE CurrentToolPath) \o <<44, 48>>
    /\ (last.op = "GetIcon" /\ last.hr = "S_FALSE") =>
          (ConfigUnresolvable /\ ~ModulePathObtainable)

\* C19 witness: an earlier call resolved the tool path "t t", the
\* configuration was then removed, and the next Invoke on a drive root
\* ended "not configured".
C19_Witness ==
    /\ last.op = "Invoke" /\ SelIsDriveRoot
    /\ resolved = <<116, 32, 116>>
    /\ ~hklm.present /\ ~hkcu.present
    /\ last.hr = "E_FAIL" /\ ~last.launch.attempted

\* C20: once a key has been opened, in either scope, a missing or
\* unreadable ExePath entry makes resolution fail with the outcome it has
\* when no key can be opened; a machine-wide key without the entry ends
\* the resolution, the per-user key is not consulted even if it holds a
\* valid entry; and the key that was opened is closed exactly once,
\* whether the read succeeded or not.
C20_EntryFailure ==
    ConfigWasRead =>
        LET c == last.config
            consulted == IF hklm.present THEN hklm ELSE hkcu
        IN  /\ c.opened = (IF hklm.present \/ hkcu.present THEN 1 ELSE 0)
            /\ c.closes = c.opened
            /\ (c.opened = 1 /\ ~EntryUsable(consulted)) =>
                  /\ c.hr = "E_FAIL"
                  /\ c.pszExePath = <<>>
                  /\ last.op = "Invoke" =>
                        (last.hr = "E_FAIL" /\ ~last.launch.attempted)
            /\ c.opened = 0 =>
                  /\ c.hr = "E_FAIL"
                  /\ c.pszExePath = <<>>
                  /\ last.op = "Invoke" =>
                        (last.hr = "E_FAIL" /\ ~last.launch.attempted)
            /\ (hklm.present /\ ~EntryUsable(hklm)) =>
                  (c.opens = <<"HKLM">> /\ c.hr = "E_FAIL")
            /\ c.hr = "S_OK" => (c.opened = 1 /\ c.closes = 1)

\* C20 witness: the machine-wide key exists without the entry, the
\* per-user key holds a valid one, and Invoke ended "not configured"
\* after closing the one key it opened.
C20_Witness ==
    /\ last.op = "Invoke" /\ last.hr = "E_FAIL"
    /\ hklm.present /\ ~hklm.hasExePath
    /\ EntryUsable(hkcu)
    /\ last.config.opens = <<"HKLM">>
    /\ last.config.opened = 1 /\ last.config.closes = 1

-----------------------------------------------------------------------------
(* Claims about null arguments (SpecMethods) and the class factory         *)
(* (SpecServer)                                                            *)

\* the step completed a call that was handed a null output location, or
\* an Invoke that was handed a null selection
NullArgumentStep ==
    \/ last' # last /\ (last'.outNull \/ (last'.op = "Invoke" /\ sel.isNull))
    \/ lastRef' # lastRef /\ lastRef'.ppvIsNull
    \/ lastFac' # lastFac /\ lastFac'.ppvIsNull

\* what the last call reports when it was handed a null argument
NullArgumentOutcome ==
    /\ last.outNull =>
          /\ last.op \in {"GetTitle", "GetIcon", "GetToolTip", "GetCanonicalName",
                          "GetState", "GetFlags", "EnumSubCommands"}
          /\ last.hr = "E_POINTER"
          /\ last.out = "unwritten" /\ last.text = <<>>
          /\ last.validator.hr = "not called"
          /\ last.config.hr = "not called"
          /\ ~last.launch.attempted
    /\ (last.op = "Invoke" /\ sel.isNull) =>
          /\ last.hr = "E_POINTER"
          /\ last.validator.hr = "not called"
          /\ last.config.hr = "not called"
          /\ ~last.launch.attempted
    /\ (lastRef.op = "QueryInterface" /\ lastRef.ppvIsNull) =>
          /\ lastRef.hr = "E_POINTER"
          /\ lastRef.after = lastRef.before
          /\ lastRef.ppv = "unwritten"
    /\ (lastFac.op = "CreateInstance" /\ lastFac.ppvIsNull) =>
          /\ lastFac.hr = "E_POINTER"
          /\ lastFac.constructions = 0 /\ lastFac.destructions = 0

\* C15: QueryInterface, GetTitle, GetIcon, GetToolTip, GetCanonicalName,
\* GetState, GetFlags, EnumSubCommands and CreateInstance with a null
\* output pointer, and Invoke with a null selection, return E_POINTER
\* without reading the configuration, starting a process or creating an
\* instance, and the call changes no reference count and nothing else of
\* the state.
C15_NullArgument ==
    /\ []NullArgumentOutcome
    /\ [][NullArgumentStep =>
            UNCHANGED <<m_refCount, alive, destroyed, touched, held, pc,
                        nAddRef, nRelease, constructed, serverLocks,
                        resolved, sel, hklm, hkcu, hInstance>>]_vars

\* C15 witness: GetIcon was called with a null output while the host held
\* an instance and a tool path was configured; nothing had been read.
C15_Witness ==
    /\ last.op = "GetIcon" /\ last.outNull /\ last.hr = "E_POINTER"
    /\ alive /\ m_refCount >= 1 /\ held[1] >= 1
    /\ hklm.present /\ hklm.hasExePath
    /\ resolved = <<>>
    /\ lastFac.op = "CreateInstance" /\ lastFac.ppvIsNull

\* C16: CreateInstance with a non-null outer object (and an output
\* location) returns CLASS_E_NOAGGREGATION with a null output for every
\* requested interface, and constructs no ExplorerCommand.
C16_NoAggregation ==
    (lastFac.op = "CreateInstance" /\ ~lastFac.outerIsNull /\ ~lastFac.ppvIsNull) =>
        /\ lastFac.hr = "CLASS_E_NOAGGREGATION"
        /\ lastFac.ppv = "nullptr"
        /\ lastFac.constructions = 0
        /\ lastFac.destructions = 0

\* C16 witness: aggregation of IUnknown was asked for before any instance
\* existed, and none was constructed.
C16_Witness ==
    /\ lastFac.op = "CreateInstance" /\ ~lastFac.outerIsNull
    /\ lastFac.riid = "IID_IUnknown"
    /\ lastFac.hr = "CLASS_E_NOAGGREGATION"
    /\ constructed = 0 /\ ~alive

\* C17: LockServer returns S_OK for lock and unlock and changes nothing of
\* the server's state, and DllCanUnloadNow returns S_OK after any sequence
\* of LockServer calls, creations and releases, whatever locks and live
\* instances are outstanding.
C17_NoServerPinning ==
    /\ [](lastFac.op \in {"LockServer", "DllCanUnloadNow"} => lastFac.hr = "S_OK")
    /\ [][serverLocks' # serverLocks =>
            /\ lastFac'.op = "LockServer"
            /\ lastFac'.flag = (serverLocks' > serverLocks)
            /\ UNCHANGED <<refVars, constructed, valVars, cmdVars, envVars>>]_vars

\* C17 witness: DllCanUnloadNow answered S_OK while the host held a lock
\* and a live instance.
C17_Witness ==
    /\ lastFac.op = "DllCanUnloadNow" /\ lastFac.hr = "S_OK"
    /\ serverLocks > 0
    /\ alive /\ m_refCount >= 1 /\ constructed >= 1

\* C21: a CreateInstance call without aggregation that constructed an
\* instance hands it out, for a supported identity, with a reference count
\* of exactly 1 owned by the caller; for an unsupported identity it returns
\* E_NOINTERFACE with a null output and the instance it constructed has
\* been destroyed exactly once before the call returns.
C21_FactoryHandOff ==
    /\ [](  (lastFac.op = "CreateInstance" /\ lastFac.constructions > 0) =>
               /\ lastFac.outerIsNull /\ ~lastFac.ppvIsNull
               /\ lastFac.constructions = 1
               /\ IF lastFac.riid \in {"IID_IUnknown", "IID_IExplorerCommand"}
                  THEN /\ lastFac.hr = "S_OK" /\ lastFac.ppv = "this"
                       /\ lastFac.refCount = 1
                       /\ lastFac.destructions = 0
                  ELSE /\ lastFac.hr = "E_NOINTERFACE" /\ lastFac.ppv = "nullptr"
                       /\ lastFac.refCount = 0
                       /\ lastFac.destructions = 1 )
    /\ [](  (lastFac.op = "CreateInstance" /\ lastFac.outerIsNull
             /\ ~lastFac.ppvIsNull /\ lastFac.constructions = 0) =>
               lastFac.hr = "E_OUTOFMEMORY" )
    /\ [][constructed' # constructed =>
            /\ lastFac'.op = "CreateInstance"
            /\ constructed' = constructed + 1
            /\ IF lastFac'.hr = "S_OK"
               THEN /\ alive' /\ m_refCount' = 1
                    /\ held' = [t \in Threads |-> IF t = 1 THEN 1 ELSE 0]
               ELSE UNCHANGED <<alive, m_refCount, held>>]_vars

\* C21 witness: the host holds an instance the factory handed out with a
\* count of 1, and a second CreateInstance for an identity the object does
\* not support constructed an instance and destroyed it.
C21_Witness ==
    /\ lastFac.op = "CreateInstance" /\ lastFac.riid = "IID_IClassFactory"
    /\ lastFac.hr = "E_NOINTERFACE" /\ lastFac.destructions = 1
    /\ constructed = 2
    /\ alive /\ m_refCount = 1 /\ held[1] = 1

-----------------------------------------------------------------------------
(* Claims about the items of the selection (Spec, SpecValidator) *)

\* the current selection cut down to its first item
FirstItemOnly == [sel EXCEPT !.items = <<sel.items[1]>>]

\* C22: for a selection of one or more items the validator, GetState and
\* Invoke answer as they do for the first item alone: only index 0 is
\* retrieved, further items neither invalidate nor extend the check, and
\* no call modifies the selection.
C22_FirstItemDecides ==
    /\ []( (last.op \in {"GetState", "Invoke"} /\ Len(sel.items) >= 1
            /\ last.validator.hr # "not called") =>
              /\ \A i \in 1..Len(last.validator.itemsGot) :
                    last.validator.itemsGot[i] = 0
              /\ last.validator = GetSelectedDrivePath(FirstItemOnly, <<>>, MAX_PATH)
              /\ last.op = "GetState" =>
                    last = GetStateCall(FirstItemOnly, last.flag, last.outNull)
              /\ last.op = "Invoke" =>
                    last = InvokeCall(FirstItemOnly, last.launch.started) )
    /\ [][last' # last => sel' = sel]_vars

\* C22 witness: the first item is the folder D:\Projects, the second item
\* is the drive root C:, and GetState hid the command after retrieving
\* item 0 only.
C22_Witness ==
    /\ last.op = "GetState" /\ last.out = "ECS_HIDDEN"
    /\ Len(sel.items) = 2
    /\ sel.items[1].name = <<68, 58, 92, 80, 114, 111, 106, 101, 99, 116, 115>>
    /\ sel.items[2].name = <<67, 58>>
    /\ last.validator.itemsGot = <<0>>

\* C23: on every exit path of the validator (accepted, rejected, no
\* display name, zero items, item retrieval failure) the item reference
\* obtained from the selection has been released exactly once and the
\* display name obtained has been freed exactly once, so after any
\* GetState or Invoke nothing of the selection is still referenced.
C23_NothingOutlivesCall ==
    (last.op \in {"GetState", "Invoke"} /\ last.validator.hr # "not called") =>
        LET v == last.validator
            itemObtained == /\ Succeeded(sel.countHr) /\ Len(sel.items) > 0
                            /\ Succeeded(sel.itemHr)
            nameObtained == /\ itemObtained
                            /\ Succeeded(sel.items[1].nameHr)
                            /\ sel.items[1].hasName
        IN  /\ v.itemReleases = (IF itemObtained THEN 1 ELSE 0)
            /\ v.namesGot = (IF nameObtained THEN 1 ELSE 0)
            /\ v.nameFrees = v.namesGot
            /\ Len(v.itemsGot) <= 1
            /\ (Len(v.itemsGot) = 1 /\ ~itemObtained) => v.hr = "E_FAIL"
            /\ v.hr \in {"S_OK", "S_FALSE", "E_FAIL"}

\* C23 witness: Invoke rejected a selection whose first item is the folder
\* D:\Projects, after releasing the item and freeing its display name.
C23_Witness ==
    /\ last.op = "Invoke" /\ last.hr = "S_FALSE"
    /\ sel.items # <<>>
    /\ sel.items[1].name = <<68, 58, 92, 80, 114, 111, 106, 101, 99, 116, 115>>
    /\ last.validator.itemReleases = 1
    /\ last.validator.namesGot = 1 /\ last.validator.nameFrees = 1

\* C24: for every non-null selection and every configuration, Invoke
\* returns S_FALSE iff GetState emits HIDDEN for the same selection; where
\* GetState emits ENABLED, Invoke returns S_OK or E_FAIL, never S_FALSE.
C24_ApplicabilityAgrees ==
    /\ (last.op = "Invoke" /\ ~sel.isNull) =>
          LET shown == GetStateCall(sel, TRUE, FALSE)
          IN  /\ shown.hr = "S_OK"
              /\ shown.out \in {"ECS_HIDDEN", "ECS_ENABLED"}
              /\ last.hr = "S_FALSE" <=> shown.out = "ECS_HIDDEN"
              /\ shown.out = "ECS_ENABLED" => last.hr \in {"S_OK", "E_FAIL"}
    /\ (last.op = "GetState" /\ ~last.outNull /\ ~sel.isNull) =>
          \A ok \in BOOLEAN :
              LET run == InvokeCall(sel, ok)
              IN  /\ run.hr = "S_FALSE" <=> last.out = "ECS_HIDDEN"
                  /\ last.out = "ECS_ENABLED" => run.hr \in {"S_OK", "E_FAIL"}

\* C24 witness: with no tool path configured Invoke on the drive root D:\
\* returned E_FAIL, not S_FALSE, for a selection GetState shows ENABLED.
C24_Witness ==
    /\ last.op = "Invoke" /\ last.hr = "E_FAIL"
    /\ sel.items = <<NamedItem(<<68, 58, 92>>)>>
    /\ ~hklm.present /\ ~hkcu.present
    /\ GetStateCall(sel, TRUE, FALSE).out = "ECS_ENABLED"

\* C25: the nested copy of the validator accepts a first-item path only
\* when it is exactly 2 characters with ':' second; every selection it
\* accepts the primary copy accepts too; the primary copy also accepts the
\* 3-character forms ending in a separator; and for every selection both
\* accept, both yield the same drive token.
C25_ValidatorCopiesAgree ==
    (ValidatedFirstPath /\ vresNested.hr # "not called") =>
        LET p == vsel.items[1].name
            nestedAccepts == vresNested.hr = "S_OK"
            primaryAccepts == vres.hr = "S_OK"
        IN  /\ nestedAccepts <=> (Len(p) = 2 /\ p[2] = 58)
            /\ nestedAccepts => primaryAccepts
            /\ (Len(p) = 3 /\ p[2] = 58 /\ p[3] \in {92, 47}) =>
                  (primaryAccepts /\ ~nestedAccepts)
            /\ (nestedAccepts /\ primaryAccepts) =>
                  vresNested.pszPath = vres.pszPath

=============================================================================
